---- MODULE Spec2Model ----
(***************************************************************************)
(* Model of static/script.js, the Socket.IO chat client (the variant that  *)
(* starts at line 55: connect, send, receive, payment unlock, admin        *)
(* lock/unlock buttons, chat_status).                                      *)
(*                                                                         *)
(* A string is a sequence of one-character strings, so that trim() is      *)
(* computed and not assumed.  The DOM is the list of the chat window's     *)
(* children, the value of the input, the disabled flags of the input and   *)
(* of the send button, and the pay overlay.  The transport is the list of  *)
(* events this client emitted.  One action is one run of one listener or   *)
(* callback on the single-threaded event loop.                             *)
(*                                                                         *)
(* Lines 1-53 of the file are an earlier copy of lines 55-116 (the same    *)
(* connect, sendMessage, click, keydown and message listeners), so each    *)
(* listener is modelled once.  hasSent, the winners panel and              *)
(* toggleWinnersPanel are not in script.js: they follow the design         *)
(* document's description of the widget's other variant.                   *)
(***************************************************************************)
EXTENDS Naturals, Sequences, FiniteSets

\* ---------------------------------------------------------------- bounds
MaxLen == 2       \* longest text typed into the input
MaxWindow == 2    \* most children of the chat window
MaxEmit == 1      \* most events emitted to the transport
MaxTimers == 1    \* most payment-unlock timers pending at once

\* ---------------------------------------------------------------- values
Null == "null"
SocketIds == {"s1", "s2"}
Ids == SocketIds \cup {Null}
Whitespace == {" "}
Chars == {" ", "a"}
Keys == {"Enter", "a"}
Statuses == {"success", "failed"}
LockedNotice == "Chat locked by admin"
UnlockedNotice == "Chat unlocked"
UnlockedBanner == "Chat Unlocked!"
\* what the template renders into the isAdmin literal
RenderedTrue == <<"t", "r", "u", "e">>
RenderedFalse == <<"f", "a", "l", "s", "e">>

RECURSIVE StringsOfLen(_)
StringsOfLen(n) ==
  IF n = 0 THEN {<<>>}
  ELSE {Append(s, c) : s \in StringsOfLen(n - 1), c \in Chars}

\* every text the user can have in the input
InputTexts == UNION {StringsOfLen(n) : n \in 0..MaxLen}

\* texts of messages arriving from other clients (shown as they are)
RemoteTexts == {<<"a">>, <<" ", "a">>}

VARIABLES
  myId,               \* let myId
  inputValue,         \* chatInput.value
  chatInputDisabled,  \* chatInput.disabled
  sendBtnDisabled,    \* sendBtn.disabled
  chatWindow,         \* children of chatWindow, in document order
  scrollTop,          \* chatWindow.scrollTop, counted in children
  emitted,            \* what socket.emit was called with, in order
  payOverlay,         \* payOverlay.innerHTML and payOverlay.style.display
  timers,             \* payment-unlock timeouts set and not yet run
  isAdmin,            \* the rendered template literal
  headerButtons,      \* buttons appended to the header
  hasSent,            \* ChatState.hasSent
  winnersVisible,     \* visibility of the winners panel
  locked,             \* ChatState.locked as toggleWinnersPanel sets it
  nEchoed,            \* history: emitted messages the server has echoed back
  statusLocked,       \* history: locked of the most recent chat_status
  seqDisabled,        \* history: disabled state if every inbound event
                      \*   took its full effect on arrival
  last,               \* history: the listener that ran last, and its input
  prev                \* history: the program state before it ran

pvars == <<myId, inputValue, chatInputDisabled, sendBtnDisabled, chatWindow,
           scrollTop, emitted, payOverlay, timers, isAdmin, headerButtons,
           hasSent, winnersVisible, locked>>
hvars == <<nEchoed, statusLocked, seqDisabled, last, prev>>
vars == <<pvars, hvars>>

Snapshot ==
  [myId |-> myId, inputValue |-> inputValue,
   chatInputDisabled |-> chatInputDisabled, sendBtnDisabled |-> sendBtnDisabled,
   chatWindow |-> chatWindow, scrollTop |-> scrollTop, emitted |-> emitted,
   payOverlay |-> payOverlay, timers |-> timers, headerButtons |-> headerButtons,
   hasSent |-> hasSent, winnersVisible |-> winnersVisible, locked |-> locked,
   statusLocked |-> statusLocked]

Ran(op, id, text, flag) ==
  /\ last' = [op |-> op, id |-> id, text |-> text, flag |-> flag]
  /\ prev' = Snapshot

\* ------------------------------------------------------- pure functions
\* String.prototype.trim: drops the whitespace at both ends
RECURSIVE TrimStart(_)
TrimStart(s) ==
  IF s = <<>> THEN s
  ELSE IF Head(s) \in Whitespace THEN TrimStart(Tail(s)) ELSE s

RECURSIVE TrimEnd(_)
TrimEnd(s) ==
  IF s = <<>> THEN s
  ELSE IF s[Len(s)] \in Whitespace THEN TrimEnd(SubSeq(s, 1, Len(s) - 1)) ELSE s

Trim(s) == TrimEnd(TrimStart(s))

\* truthiness of a JavaScript string: only the empty string is falsy
Truthy(str) == str # <<>>

Div(cls, text) == [cls |-> cls, text |-> text]
MessageEvent(id, text) == [event |-> "message", id |-> id, text |-> text]
BareEvent(name) == [event |-> name, id |-> Null, text |-> <<>>]

\* chatWindow.appendChild(div); chatWindow.scrollTop = chatWindow.scrollHeight
AppendChild(div) ==
  /\ chatWindow' = Append(chatWindow, div)
  /\ scrollTop' = Len(chatWindow) + 1

\* ------------------------------------------------------------ listeners
Init ==
  /\ myId = Null
  /\ inputValue = <<>>
  /\ chatInputDisabled = FALSE
  /\ sendBtnDisabled = FALSE
  /\ chatWindow = <<>>
  /\ scrollTop = 0
  /\ emitted = <<>>
  /\ payOverlay = [innerHTML |-> "", display |-> ""]
  /\ timers = 0
  /\ isAdmin \in {RenderedTrue, RenderedFalse}
  /\ headerButtons = IF Truthy(isAdmin) THEN {"lockBtn", "unlockBtn"} ELSE {}
  /\ hasSent = FALSE
  /\ winnersVisible = FALSE
  /\ locked = FALSE
  /\ nEchoed = 0
  /\ statusLocked = FALSE
  /\ seqDisabled = FALSE
  /\ last = [op |-> "load", id |-> Null, text |-> <<>>, flag |-> FALSE]
  /\ prev = Snapshot

\* socket.on("connect")
Connect ==
  \E id \in SocketIds :
    /\ myId' = id
    /\ Ran("connect", id, <<>>, FALSE)
    /\ UNCHANGED <<inputValue, chatInputDisabled, sendBtnDisabled, chatWindow,
                   scrollTop, emitted, payOverlay, timers, isAdmin,
                   headerButtons, hasSent, winnersVisible, locked, nEchoed,
                   statusLocked, seqDisabled>>

\* the user edits the input; a disabled input takes no keyboard input
TypeInput ==
  \E s \in InputTexts :
    /\ ~chatInputDisabled
    /\ s # inputValue
    /\ inputValue' = s
    /\ Ran("input", Null, s, FALSE)
    /\ UNCHANGED <<myId, chatInputDisabled, sendBtnDisabled, chatWindow,
                   scrollTop, emitted, payOverlay, timers, isAdmin,
                   headerButtons, hasSent, winnersVisible, locked, nEchoed,
                   statusLocked, seqDisabled>>

\* sendMessage testing and sending the raw value, trim() forgotten
sendMessageNoTrim ==
  LET msg == inputValue IN
  IF ~Truthy(msg)
  THEN UNCHANGED <<inputValue, chatWindow, scrollTop, emitted>>
  ELSE /\ AppendChild(Div("me", msg))
       /\ emitted' = Append(emitted, MessageEvent(myId, msg))
       /\ inputValue' = <<>>

\* function sendMessage()
sendMessage ==
  LET msg == Trim(inputValue) IN
  IF ~Truthy(msg)
  THEN UNCHANGED <<inputValue, chatWindow, scrollTop, emitted>>
  ELSE /\ AppendChild(Div("me", msg))
       /\ emitted' = Append(emitted, MessageEvent(myId, msg))
       /\ inputValue' = <<>>

\* submitLocalMessage marks hasSent once a message has gone out
MarkHasSent == hasSent' = (hasSent \/ emitted' # emitted)

\* the model stops growing the window and the transport log at the bounds
Room(nDivs, nEvents) ==
  /\ Len(chatWindow) + nDivs <= MaxWindow
  /\ Len(emitted) + nEvents <= MaxEmit

SendRoom == IF Truthy(Trim(inputValue)) THEN Room(1, 1) ELSE TRUE

\* sendBtn.addEventListener("click", sendMessage); a disabled button
\* dispatches no click
ClickSend ==
  /\ ~sendBtnDisabled
  /\ SendRoom
  /\ sendMessage
  /\ MarkHasSent
  /\ Ran("sendMessage", myId, inputValue, FALSE)
  /\ UNCHANGED <<myId, chatInputDisabled, sendBtnDisabled, payOverlay, timers,
                 isAdmin, headerButtons, winnersVisible, locked, nEchoed,
                 statusLocked, seqDisabled>>

\* chatInput.addEventListener("keydown", ...); a disabled input has no focus
\* and gets no key events
Keydown ==
  \E key \in Keys, shiftKey \in BOOLEAN :
    /\ ~chatInputDisabled
    /\ IF key = "Enter" /\ ~shiftKey
       THEN /\ SendRoom
            /\ sendMessage
            /\ MarkHasSent
            /\ Ran("sendMessage", myId, inputValue, TRUE)
       ELSE /\ UNCHANGED <<inputValue, chatWindow, scrollTop, emitted, hasSent>>
            /\ Ran("keydown", Null, <<key>>, shiftKey)
    /\ UNCHANGED <<myId, chatInputDisabled, sendBtnDisabled, payOverlay, timers,
                   isAdmin, headerButtons, winnersVisible, locked, nEchoed,
                   statusLocked, seqDisabled>>

\* the message listener without its test of data.id
onMessageNoIdTest(data) == AppendChild(Div("other", data.text))

\* socket.on("message")
onMessage(data) ==
  IF data.id = myId
  THEN UNCHANGED <<chatWindow, scrollTop>>
  ELSE AppendChild(Div("other", data.text))

MessageRoom(data) == IF data.id = myId THEN TRUE ELSE Room(1, 0)

\* a message event of another client, or of anyone, arrives
ReceiveMessage ==
  \E id \in Ids, text \in RemoteTexts :
    /\ MessageRoom(MessageEvent(id, text))
    /\ onMessage(MessageEvent(id, text))
    /\ Ran("message", id, text, FALSE)
    /\ UNCHANGED <<myId, inputValue, chatInputDisabled, sendBtnDisabled,
                   emitted, payOverlay, timers, isAdmin, headerButtons,
                   hasSent, winnersVisible, locked, nEchoed, statusLocked,
                   seqDisabled>>

\* the message events this client emitted, in order
SentMessages == SelectSeq(emitted, LAMBDA e : e.event = "message")

\* the server broadcasts the next message this client sent back to it, with
\* the id it was sent with
ReceiveEcho ==
  /\ nEchoed < Len(SentMessages)
  /\ LET data == SentMessages[nEchoed + 1] IN
       /\ MessageRoom(data)
       /\ onMessage(data)
       /\ Ran("message", data.id, data.text, TRUE)
  /\ nEchoed' = nEchoed + 1
  /\ UNCHANGED <<myId, inputValue, chatInputDisabled, sendBtnDisabled,
                 emitted, payOverlay, timers, isAdmin, headerButtons,
                 hasSent, winnersVisible, locked, statusLocked, seqDisabled>>

\* socket.on("payment_status"): on success the banner is set at once and the
\* unlock is left to a timeout
onPaymentStatus(data) ==
  IF data.status = "success"
  THEN /\ payOverlay' = [payOverlay EXCEPT !.innerHTML = UnlockedBanner]
       /\ timers' = timers + 1
  ELSE UNCHANGED <<payOverlay, timers>>

PaymentStatus ==
  \E status \in Statuses :
    /\ status = "success" => timers < MaxTimers
    /\ onPaymentStatus([status |-> status])
    /\ seqDisabled' = IF status = "success" THEN FALSE ELSE seqDisabled
    /\ Ran("payment_status", Null, <<>>, status = "success")
    /\ UNCHANGED <<myId, inputValue, chatInputDisabled, sendBtnDisabled,
                   chatWindow, scrollTop, emitted, isAdmin, headerButtons,
                   hasSent, winnersVisible, locked, nEchoed, statusLocked>>

\* the callback of setTimeout(..., 1500)
paymentTimeout ==
  /\ payOverlay' = [payOverlay EXCEPT !.display = "none"]
  /\ chatInputDisabled' = FALSE
  /\ sendBtnDisabled' = FALSE

TimerFire ==
  /\ timers > 0
  /\ timers' = timers - 1
  /\ paymentTimeout
  /\ Ran("timeout", Null, <<>>, FALSE)
  /\ UNCHANGED <<myId, inputValue, chatWindow, scrollTop, emitted, isAdmin,
                 headerButtons, hasSent, winnersVisible, locked, nEchoed,
                 statusLocked, seqDisabled>>

\* function addSystemMessage(text)
addSystemMessage(text) == AppendChild(Div("system-msg", text))

\* the chat_status listener leaving the send button as it was
onChatStatusInputOnly(data) ==
  IF data.locked
  THEN /\ addSystemMessage(LockedNotice)
       /\ chatInputDisabled' = TRUE
       /\ UNCHANGED sendBtnDisabled
  ELSE /\ addSystemMessage(UnlockedNotice)
       /\ chatInputDisabled' = FALSE
       /\ UNCHANGED sendBtnDisabled

\* socket.on("chat_status")
onChatStatus(data) ==
  IF data.locked
  THEN /\ addSystemMessage(LockedNotice)
       /\ chatInputDisabled' = TRUE
       /\ sendBtnDisabled' = TRUE
  ELSE /\ addSystemMessage(UnlockedNotice)
       /\ chatInputDisabled' = FALSE
       /\ sendBtnDisabled' = FALSE

ChatStatus ==
  \E b \in BOOLEAN :
    /\ Room(1, 0)
    /\ onChatStatus([locked |-> b])
    /\ statusLocked' = b
    /\ seqDisabled' = b
    /\ Ran("chat_status", Null, <<>>, b)
    /\ UNCHANGED <<myId, inputValue, emitted, payOverlay, timers, isAdmin,
                   headerButtons, hasSent, winnersVisible, locked, nEchoed>>

\* lockBtn.addEventListener("click", ...)
ClickLock ==
  /\ "lockBtn" \in headerButtons
  /\ Room(0, 1)
  /\ emitted' = Append(emitted, BareEvent("lock_chat"))
  /\ Ran("lock_click", Null, <<>>, FALSE)
  /\ UNCHANGED <<myId, inputValue, chatInputDisabled, sendBtnDisabled,
                 chatWindow, scrollTop, payOverlay, timers, isAdmin,
                 headerButtons, hasSent, winnersVisible, locked, nEchoed,
                 statusLocked, seqDisabled>>

\* unlockBtn.addEventListener("click", ...)
ClickUnlock ==
  /\ "unlockBtn" \in headerButtons
  /\ Room(0, 1)
  /\ emitted' = Append(emitted, BareEvent("unlock_chat"))
  /\ Ran("unlock_click", Null, <<>>, FALSE)
  /\ UNCHANGED <<myId, inputValue, chatInputDisabled, sendBtnDisabled,
                 chatWindow, scrollTop, payOverlay, timers, isAdmin,
                 headerButtons, hasSent, winnersVisible, locked, nEchoed,
                 statusLocked, seqDisabled>>

\* toggleWinnersPanel without its test of hasSent
toggleWinnersPanelUnguarded ==
  /\ winnersVisible' = ~winnersVisible
  /\ locked' = TRUE

\* toggleWinnersPanel(): nothing until a message was sent, then the panel
\* flips and the chat is force-locked
toggleWinnersPanel ==
  IF ~hasSent
  THEN UNCHANGED <<winnersVisible, locked>>
  ELSE /\ winnersVisible' = ~winnersVisible
       /\ locked' = TRUE

ToggleWinnersPanel ==
  /\ toggleWinnersPanel
  /\ Ran("toggleWinnersPanel", Null, <<>>, FALSE)
  /\ UNCHANGED <<myId, inputValue, chatInputDisabled, sendBtnDisabled,
                 chatWindow, scrollTop, emitted, payOverlay, timers, isAdmin,
                 headerButtons, hasSent, nEchoed, statusLocked, seqDisabled>>

Next ==
  \/ Connect
  \/ TypeInput
  \/ ClickSend
  \/ Keydown
  \/ ReceiveMessage
  \/ ReceiveEcho
  \/ PaymentStatus
  \/ TimerFire
  \/ ChatStatus
  \/ ClickLock
  \/ ClickUnlock
  \/ ToggleWinnersPanel

Spec == Init /\ [][Next]_vars

\* The claims that hold are also checked where only the listeners they
\* depend on run, so that the check completes at larger bounds as well.

\* composing and sending, with the chat locked and unlocked by the server
NextSend == Connect \/ TypeInput \/ ClickSend \/ Keydown \/ ChatStatus
SpecSend == Init /\ [][NextSend]_vars

\* receiving message events, before and after connect, between notices
NextReceive == Connect \/ ReceiveMessage \/ ChatStatus
SpecReceive == Init /\ [][NextReceive]_vars

\* locking: chat_status and the payment unlock, around local sends
NextStatus ==
  TypeInput \/ ClickSend \/ ChatStatus \/ PaymentStatus \/ TimerFire
SpecStatus == Init /\ [][NextStatus]_vars

\* the winners panel
NextWinners == TypeInput \/ ClickSend \/ Keydown \/ ToggleWinnersPanel
SpecWinners == Init /\ [][NextWinners]_vars

\* ---------------------------------------------------------------- claims
OnlyWhitespace(s) == \A i \in 1..Len(s) : s[i] \in Whitespace
SentLast == last.op = "sendMessage"
IsLockEvent(e) == e.event \in {"lock_chat", "unlock_chat"}

\* C1: in every reachable state the chat input and the send button are
\* enabled if and only if the chat is not locked, locked being the value of
\* the most recent chat_status event.
C1_EnabledIffUnlocked ==
  /\ chatInputDisabled = statusLocked
  /\ sendBtnDisabled = statusLocked

\* C2: once the last chat_status applied was locked = true, a call of
\* sendMessage appends nothing to the chat window, emits nothing and leaves
\* the input text as it was.
C2_LockedSendIsNoOp ==
  (SentLast /\ prev.statusLocked) =>
    /\ chatWindow = prev.chatWindow
    /\ emitted = prev.emitted
    /\ inputValue = prev.inputValue

\* C3: for an input that is empty or only whitespace, sendMessage (by click
\* or by Enter) leaves the chat window and the emitted events unchanged.
C3_WhitespaceSendIgnored ==
  (SentLast /\ OnlyWhitespace(prev.inputValue)) =>
    /\ chatWindow = prev.chatWindow
    /\ emitted = prev.emitted

C3_Witness ==
  /\ SentLast
  /\ last.flag
  /\ prev.inputValue = <<" ", " ">>
  /\ prev.chatWindow # <<>>

\* C4: an inbound message whose id equals myId on arrival is not appended;
\* one whose id differs appends exactly one 'other' div with its text; also
\* while myId is still null.
C4_OwnIdSuppressed ==
  (last.op = "message") =>
    IF last.id = prev.myId
    THEN chatWindow = prev.chatWindow
    ELSE chatWindow = Append(prev.chatWindow, Div("other", last.text))

C4_Witness ==
  /\ last.op = "message"
  /\ last.id = Null
  /\ prev.myId = Null
  /\ \E i \in 1..Len(chatWindow) : chatWindow[i].cls = "other"

\* C5: for an input that does not trim to empty, with the chat not locked,
\* one call of sendMessage appends exactly one 'me' div with the trimmed
\* text at the end of the window, emits exactly one message event
\* {id: myId, text: trimmed}, and leaves the input empty.
C5_SendAppendsEmitsClears ==
  (SentLast /\ ~OnlyWhitespace(prev.inputValue) /\ ~prev.statusLocked) =>
    LET text == Trim(prev.inputValue) IN
      /\ chatWindow = Append(prev.chatWindow, Div("me", text))
      /\ emitted = Append(prev.emitted, MessageEvent(prev.myId, text))
      /\ inputValue = <<>>

C5_Witness ==
  /\ SentLast
  /\ prev.inputValue = <<" ", "a">>
  /\ prev.myId \in SocketIds
  /\ prev.chatWindow # <<>>
  /\ ~prev.statusLocked
  /\ chatWindow[Len(chatWindow)] = Div("me", <<"a">>)

\* C6: a chat_status {locked: b} sets the disabled state of the input and of
\* the send button to b, appends exactly one system notice for the new
\* state, and changes nothing else.
C6_ChatStatusEffect ==
  (last.op = "chat_status") =>
    /\ chatInputDisabled = last.flag
    /\ sendBtnDisabled = last.flag
    /\ chatWindow = Append(prev.chatWindow,
         Div("system-msg", IF last.flag THEN LockedNotice ELSE UnlockedNotice))
    /\ emitted = prev.emitted
    /\ inputValue = prev.inputValue
    /\ myId = prev.myId
    /\ payOverlay = prev.payOverlay
    /\ timers = prev.timers
    /\ headerButtons = prev.headerButtons

C6_Witness ==
  /\ last.op = "chat_status"
  /\ last.flag
  /\ ~prev.chatInputDisabled
  /\ prev.emitted # <<>>
  /\ prev.chatWindow # <<>>
  /\ prev.timers > 0

\* C7: inbound events take their full effect in arrival order, so once no
\* timer is pending the input and the send button are as the last
\* payment_status success or chat_status to arrive leaves them: locked when
\* a chat_status {locked: true} came after the payment_status success.
C7_ArrivalOrder ==
  (timers = 0) =>
    /\ chatInputDisabled = seqDisabled
    /\ sendBtnDisabled = seqDisabled

\* C8: toggleWinnersPanel does nothing while hasSent is false; once a local
\* message was sent each call flips the panel's visibility and sets locked.
C8_ToggleWinners ==
  (last.op = "toggleWinnersPanel") =>
    IF ~prev.hasSent
    THEN winnersVisible = prev.winnersVisible /\ locked = prev.locked
    ELSE winnersVisible = ~prev.winnersVisible /\ locked

C8_Witness ==
  /\ last.op = "toggleWinnersPanel"
  /\ prev.hasSent
  /\ prev.winnersVisible
  /\ ~winnersVisible
  /\ locked

\* C9: for a session rendered as 'false' no lock or unlock button exists and
\* no lock_chat or unlock_chat event is ever emitted.
C9_NoLockControlsForNonAdmin ==
  (isAdmin = RenderedFalse) =>
    /\ headerButtons = {}
    /\ \A i \in 1..Len(emitted) : ~IsLockEvent(emitted[i])

\* C10: the echo of a message this client sent, carrying the id it was sent
\* with, is never appended to the window.
C10_EchoNeverShown ==
  (last.op = "message" /\ last.flag) => chatWindow = prev.chatWindow

====
